---- MODULE Spec2Model ----
(***************************************************************************)
(* A model of the iCal engine of functions/calendar.js: main, parseICS,    *)
(* the recurrence expander and filterAndSortEvents.                        *)
(*                                                                         *)
(* Conventions of the model                                                *)
(*  - A JavaScript Date is a record [ok, s, ms]: ok = FALSE is the         *)
(*    Invalid Date (time value NaN); otherwise the instant is s seconds    *)
(*    and ms milliseconds after 2000-01-01T00:00:00Z (the epoch is moved   *)
(*    from 1970 so that every instant of the model fits a 32-bit integer;  *)
(*    the code only ever uses differences and calendar fields).            *)
(*  - The host time zone of the function runtime is UTC, so the local      *)
(*    getters and setters of Date (getDay, setDate, setHours, ...) are the *)
(*    UTC ones.                                                            *)
(*  - A JavaScript string that holds a date is a record IsoStr; a free     *)
(*    text is a sequence of one-character strings; undefined / null is the *)
(*    absence of a key in a property map or the value Null.                *)
(***************************************************************************)
EXTENDS Integers, Sequences, FiniteSets, TLC

\* ------------------------------------------------------------------ dates

SecPerDay == 24 * 60 * 60

IsLeap(y) == (y % 4 = 0 /\ y % 100 # 0) \/ y % 400 = 0

DaysInMonth(y, m) ==
  IF m = 2 THEN (IF IsLeap(y) THEN 29 ELSE 28)
  ELSE IF m \in {4, 6, 9, 11} THEN 30 ELSE 31

\* Leap years in 1..y.
LeapsUpTo(y) == (y \div 4) - (y \div 100) + (y \div 400)

\* Days from 2000-01-01 to the first day of year y.
DaysBeforeYear(y) == 365 * (y - 2000) + (LeapsUpTo(y - 1) - LeapsUpTo(1999))

\* Days from the first day of year y to the first day of month m (1..12).
DaysBeforeMonth(y, m) ==
  LET cum == <<0, 31, 59, 90, 120, 151, 181, 212, 243, 273, 304, 334>>
  IN cum[m] + (IF m > 2 /\ IsLeap(y) THEN 1 ELSE 0)

\* ECMAScript MakeDay: the day number of (year, month index, day of month),
\* where the month index may lie outside 0..11 and the day outside the month.
MakeDay(y, mIdx, d) ==
  LET yy == y + (mIdx \div 12)
      mm == (mIdx % 12) + 1
  IN DaysBeforeYear(yy) + DaysBeforeMonth(yy, mm) + (d - 1)

YearOfDay(n) ==
  LET y0 == 2000 + (n \div 366)
  IN CHOOSE y \in y0 .. (y0 + 2) : DaysBeforeYear(y) <= n /\ n < DaysBeforeYear(y + 1)

MonthOfDay(n) ==
  LET y == YearOfDay(n)
      r == n - DaysBeforeYear(y)
  IN CHOOSE m \in 1..12 :
       /\ DaysBeforeMonth(y, m) <= r
       /\ r < DaysBeforeMonth(y, m) + DaysInMonth(y, m)

DateOfDay(n) ==
  LET y == YearOfDay(n)
  IN n - DaysBeforeYear(y) - DaysBeforeMonth(y, MonthOfDay(n)) + 1

\* 2000-01-01 was a Saturday; Sunday is 0 as in Date.prototype.getDay.
WeekDayOfDay(n) == (n + 6) % 7

InvalidDate == [ok |-> FALSE, s |-> 0, ms |-> 0]

MkDate(s, ms) == [ok |-> TRUE, s |-> s, ms |-> ms]

DayOf(dt) == dt.s \div SecPerDay

SecOfDay(dt) == dt.s % SecPerDay

\* a <= b, a > b, as the relational operators on Dates: any comparison with
\* the Invalid Date (NaN) is false.
DateLE(a, b) == a.ok /\ b.ok /\ (a.s < b.s \/ (a.s = b.s /\ a.ms <= b.ms))

DateGT(a, b) == a.ok /\ b.ok /\ (a.s > b.s \/ (a.s = b.s /\ a.ms > b.ms))

getFullYear(dt) == YearOfDay(DayOf(dt))

getMonth(dt) == MonthOfDay(DayOf(dt)) - 1

getDate(dt) == DateOfDay(DayOf(dt))

getDay(dt) == WeekDayOfDay(DayOf(dt))

getHours(dt) == SecOfDay(dt) \div 3600

getMinutes(dt) == (SecOfDay(dt) % 3600) \div 60

getSeconds(dt) == SecOfDay(dt) % 60

\* A number as JavaScript has it here: an integer or NaN.
NaN == [nan |-> TRUE, v |-> 0]

Num(v) == [nan |-> FALSE, v |-> v]

\* date.setDate(date.getDate() + n)
AddDays(dt, n) ==
  IF ~dt.ok \/ n.nan THEN InvalidDate
  ELSE [dt EXCEPT !.s = dt.s + n.v * SecPerDay]

\* date.setMonth(date.getMonth() + n)
AddMonths(dt, n) ==
  IF ~dt.ok \/ n.nan THEN InvalidDate
  ELSE [dt EXCEPT !.s = MakeDay(getFullYear(dt), getMonth(dt) + n.v, getDate(dt)) * SecPerDay
                         + SecOfDay(dt)]

\* date.setFullYear(date.getFullYear() + n)
AddYears(dt, n) ==
  IF ~dt.ok \/ n.nan THEN InvalidDate
  ELSE [dt EXCEPT !.s = MakeDay(getFullYear(dt) + n.v, getMonth(dt), getDate(dt)) * SecPerDay
                         + SecOfDay(dt)]

\* ---------------------------------------------------------- date strings

\* A string that holds a date.  fmt says which text it is:
\*   "empty"  ''                        "date"  YYYY-MM-DD
\*   "dtz"    YYYY-MM-DDTHH:MM:SSZ      "dt"    YYYY-MM-DDTHH:MM:SS
\*   "other"  any other text, kept as it is (y numbers the text)
\* and as a property value of the feed, before formatDateToISO:
\*   "cdtz"   YYYYMMDDTHHMMSSZ          "cdt"   YYYYMMDDTHHMMSS
\*   "cdate"  YYYYMMDD
IsoStr(fmt, y, mo, d, h, mi, s) ==
  [fmt |-> fmt, y |-> y, mo |-> mo, d |-> d, h |-> h, mi |-> mi, s |-> s]

EmptyStr == IsoStr("empty", 0, 0, 0, 0, 0, 0)

\* JavaScript truthiness of a string: every string but '' is truthy.
TruthyStr(str) == str.fmt # "empty"

\* Whether the fields of a date text name a date new Date() accepts.
FieldsValid(str) ==
  /\ str.mo \in 1..12
  /\ str.d \in 1..DaysInMonth(str.y, str.mo)
  /\ str.h \in 0..23 /\ str.mi \in 0..59 /\ str.s \in 0..59

\* new Date(string): a date-only text is UTC midnight, a date-time with Z
\* is UTC, a date-time without Z is local time (UTC on this host); a text
\* of no date form, or one whose fields name no date, is the Invalid Date.
NewDate(str) ==
  IF str.fmt \in {"date", "dtz", "dt"} /\ FieldsValid(str)
  THEN MkDate(MakeDay(str.y, str.mo - 1, str.d) * SecPerDay
              + str.h * 3600 + str.mi * 60 + str.s, 0)
  ELSE InvalidDate

\* date.toISOString().replace(/\.\d{3}Z$/, 'Z'), for a valid date.
ToIsoZ(dt) ==
  IsoStr("dtz", getFullYear(dt), getMonth(dt) + 1, getDate(dt),
         getHours(dt), getMinutes(dt), getSeconds(dt))

\* date.toISOString().split('T')[0], for a valid date.
ToIsoDay(dt) == IsoStr("date", getFullYear(dt), getMonth(dt) + 1, getDate(dt), 0, 0, 0)

\* ------------------------------------------------------------------ texts

\* The characters of a free text.  BS is the backslash, QT the double
\* quote, SP the space, LF, CR and TAB the control characters; the others
\* stand for themselves.
WhiteSpace == {"SP", "LF", "CR", "TAB"}

\* str.replace(/ab/g, r) for a two-character pattern: left to right, without
\* overlap, the replacement not scanned again.
RECURSIVE ReplacePair(_, _, _, _)
ReplacePair(str, a, b, r) ==
  IF Len(str) < 2 THEN str
  ELSE IF str[1] = a /\ str[2] = b
       THEN <<r>> \o ReplacePair(SubSeq(str, 3, Len(str)), a, b, r)
       ELSE <<str[1]>> \o ReplacePair(Tail(str), a, b, r)

\* str.replace(/c/g, r) for a one-character pattern and any replacement.
RECURSIVE ReplaceChar(_, _, _)
ReplaceChar(str, c, r) ==
  IF str = <<>> THEN <<>>
  ELSE (IF str[1] = c THEN r ELSE <<str[1]>>) \o ReplaceChar(Tail(str), c, r)

\* str.replace(/\s+/g, ' ')
RECURSIVE CollapseSpace(_)
CollapseSpace(str) ==
  IF str = <<>> THEN <<>>
  ELSE IF str[1] \in WhiteSpace
       THEN IF Len(str) >= 2 /\ str[2] \in WhiteSpace
            THEN CollapseSpace(Tail(str))
            ELSE <<"SP">> \o CollapseSpace(Tail(str))
       ELSE <<str[1]>> \o CollapseSpace(Tail(str))

\* The index of the first character of str at or after i that is no white
\* space (Len(str) + 1 when there is none).
RECURSIVE SkipSpace(_, _)
SkipSpace(str, i) ==
  IF i <= Len(str) /\ str[i] \in WhiteSpace THEN SkipSpace(str, i + 1) ELSE i

\* str.replace(/,\s*,/g, ',')
RECURSIVE CollapseCommas(_)
CollapseCommas(str) ==
  IF str = <<>> THEN <<>>
  ELSE LET j == SkipSpace(str, 2)
       IN IF str[1] = "," /\ j <= Len(str) /\ str[j] = ","
          THEN <<",">> \o CollapseCommas(SubSeq(str, j + 1, Len(str)))
          ELSE <<str[1]>> \o CollapseCommas(Tail(str))

RECURSIVE TrimLeft(_)
TrimLeft(str) ==
  IF str # <<>> /\ str[1] \in WhiteSpace THEN TrimLeft(Tail(str)) ELSE str

RECURSIVE TrimRight(_)
TrimRight(str) ==
  IF str # <<>> /\ str[Len(str)] \in WhiteSpace
  THEN TrimRight(SubSeq(str, 1, Len(str) - 1)) ELSE str

\* str.trim()
Trim(str) == TrimRight(TrimLeft(str))

unescapeICS(str) ==
  IF str = <<>> THEN <<>>
  ELSE LET s1 == ReplacePair(str, "BS", "n", "LF")
           s2 == ReplacePair(s1, "BS", "N", "LF")
           s3 == ReplacePair(s2, "BS", "r", "CR")
           s4 == ReplacePair(s3, "BS", "t", "TAB")
           s5 == ReplacePair(s4, "BS", ",", ",")
           s6 == ReplacePair(s5, "BS", ";", ";")
           s7 == ReplacePair(s6, "BS", "QT", "QT")
       IN ReplacePair(s7, "BS", "BS", "BS")

\* A property a record does not have reads as undefined, which cleanString
\* and cleanAddress turn into '' like the empty string.
cleanString(str) ==
  IF str = <<>> THEN <<>>
  ELSE Trim(CollapseSpace(ReplaceChar(ReplaceChar(unescapeICS(str),
              "LF", <<"SP">>), "CR", <<"SP">>)))

cleanAddress(str) ==
  IF str = <<>> THEN <<>>
  ELSE Trim(CollapseSpace(CollapseCommas(ReplaceChar(ReplaceChar(unescapeICS(str),
              "LF", <<",", "SP">>), "CR", <<",", "SP">>))))

\* ------------------------------------------------------------- time zones

\* A zone context: NoZone (undefined), a fixed offset GMT+hhmm / GMT-hhmm,
\* a zone name the host knows, a zone name it does not know, or the marker
\* FULL_DAY_END createEventFromData passes for a date-only DTEND.
NoZone == [k |-> "none", sign |-> 1, hh |-> 0, mm |-> 0]

GmtZone(sign, hh, mm) == [k |-> "gmt", sign |-> sign, hh |-> hh, mm |-> mm]

Tallinn == [k |-> "iana", sign |-> 1, hh |-> 0, mm |-> 0]

UnknownZone == [k |-> "unknown", sign |-> 1, hh |-> 0, mm |-> 0]

FullDayEnd == [k |-> "FULL_DAY_END", sign |-> 1, hh |-> 0, mm |-> 0]

\* The last Sunday of month m of year y, as a day number.
LastSunday(y, m) ==
  LET last == MakeDay(y, m - 1, DaysInMonth(y, m))
  IN last - WeekDayOfDay(last)

\* The host's zone data for Europe/Tallinn: the offset from UTC in minutes
\* at an instant (summer time between the last Sundays of March and October,
\* 01:00 UTC).
TallinnOffsetMin(dt) ==
  LET y == getFullYear(dt)
      from == LastSunday(y, 3) * SecPerDay + 3600
      to == LastSunday(y, 10) * SecPerDay + 3600
  IN IF from <= dt.s /\ dt.s < to THEN 180 ELSE 120

\* -------------------------------------------------------- formatDateToISO

\* What a call returns or throws: [thrown, v].
Ret(v) == [thrown |-> FALSE, v |-> v]

Threw == [thrown |-> TRUE, v |-> EmptyStr]

\* The local-datetime branch with a zone context: the try block.  A
\* toISOString() of an Invalid Date throws RangeError, as does
\* toLocaleString() with a zone name the host does not know; the catch
\* swallows both and the text without Z is returned.
LocalWithZone(iso, timezone) ==
  LET date == NewDate(iso)
  IN IF timezone.k = "gmt"
     THEN LET offsetMinutes == timezone.sign * (timezone.hh * 60 + timezone.mm)
          IN IF date.ok THEN ToIsoZ([date EXCEPT !.s = date.s - offsetMinutes * 60])
             ELSE iso
     ELSE IF timezone.k = "iana" /\ date.ok
          THEN ToIsoZ([date EXCEPT !.s = date.s - TallinnOffsetMin(date) * 60])
          ELSE iso

\* formatDateToISO(dateString, timezone); an absent dateString is EmptyStr.
formatDateToISO(dateString, timezone) ==
  IF ~TruthyStr(dateString) THEN Ret(EmptyStr)
  ELSE IF dateString.fmt = "cdtz" THEN Ret([dateString EXCEPT !.fmt = "dtz"])
  ELSE IF dateString.fmt = "cdt"
       THEN LET isoString == [dateString EXCEPT !.fmt = "dt"]
            IN IF timezone.k # "none" THEN Ret(LocalWithZone(isoString, timezone))
               ELSE Ret(isoString)
  ELSE IF dateString.fmt = "cdate"
       THEN LET dateOnly == [dateString EXCEPT !.fmt = "date"]
            IN IF timezone.k = "FULL_DAY_END"
               THEN LET date == AddDays(NewDate(dateOnly), Num(-1))
                    IN IF date.ok THEN Ret(ToIsoDay(date)) ELSE Threw
               ELSE Ret(dateOnly)
  ELSE Ret(dateString)

\* ------------------------------------------------------------- parseInt

DigitChars == <<"0", "1", "2", "3", "4", "5", "6", "7", "8", "9">>

IsDigit(c) == \E i \in 1..10 : DigitChars[i] = c

DigitVal(c) == (CHOOSE i \in 1..10 : DigitChars[i] = c) - 1

RECURSIVE ParseDigits(_, _, _)
ParseDigits(str, acc, any) ==
  IF str # <<>> /\ IsDigit(str[1])
  THEN ParseDigits(Tail(str), acc * 10 + DigitVal(str[1]), TRUE)
  ELSE IF any THEN Num(acc) ELSE NaN

\* parseInt(str): leading white space, a sign, then the longest prefix of
\* digits; NaN when there is no digit.
parseInt(str) ==
  LET t == TrimLeft(str)
  IN IF t # <<>> /\ t[1] = "-"
     THEN LET n == ParseDigits(Tail(t), 0, FALSE)
          IN IF n.nan THEN NaN ELSE Num(0 - n.v)
     ELSE IF t # <<>> /\ t[1] = "+" THEN ParseDigits(Tail(t), 0, FALSE)
     ELSE ParseDigits(t, 0, FALSE)

\* ------------------------------------------- the feed and its property maps

\* A logical line of the feed, after unfolding: the base key (the text
\* before the first colon, cut at the first semicolon), the zone its TZID
\* parameter names, and the value.  key = "" is a line that has no colon
\* after its first character.  The value is a date text for DTSTART, DTEND,
\* EXDATE and RECURRENCE-ID, a sequence of parameters for RRULE, a word for
\* STATUS, METHOD, UID and the vendor markers, and a free text otherwise.
Line(key, tz, val) == [key |-> key, tz |-> tz, val |-> val]

BeginLine == Line("BEGIN:VEVENT", NoZone, "")

EndLine == Line("END:VEVENT", NoZone, "")

MultiKeys == {"EXDATE", "RDATE", "EXRULE"}

Has(map, k) == k \in DOMAIN map

Put(map, k, v) == (k :> v) @@ map

NoProps == [k \in {} |-> 0]

\* parseEventProperty: the event and zone maps after one line.
parseEventProperty(line, acc) ==
  IF line.key = "" THEN acc
  ELSE LET ev == IF line.key \in MultiKeys
                 THEN Put(acc.event, line.key,
                          Append(IF Has(acc.event, line.key) THEN acc.event[line.key]
                                 ELSE <<>>, line.val))
                 ELSE Put(acc.event, line.key, line.val)
           tz == IF line.tz.k # "none" THEN Put(acc.timezones, line.key, line.tz)
                 ELSE acc.timezones
       IN [acc EXCEPT !.event = ev, !.timezones = tz]

\* JavaScript truthiness of a property value that is a word, a free text or
\* a date text (an absent property is undefined, which is falsy).
TruthyWord(ev, k) == Has(ev, k) /\ ev[k] # ""

TruthyText(ev, k) == Has(ev, k) /\ ev[k] # <<>>

TruthyDate(ev, k) == Has(ev, k) /\ TruthyStr(ev[k])

\* parseEventsFromLines, one line at a time.  acc is [open, event,
\* timezones, mainEvents, exceptions]: open is currentEvent # null,
\* exceptions the list of [uid, data] in the order of the feed (the Map of
\* lists keyed by UID).
GroupLine(line, acc) ==
  IF line.key = "BEGIN:VEVENT"
  THEN [acc EXCEPT !.open = TRUE, !.event = NoProps, !.timezones = NoProps]
  ELSE IF line.key = "END:VEVENT"
  THEN IF ~acc.open THEN acc
       ELSE LET eventData == [event |-> acc.event, timezones |-> acc.timezones]
                closed == [acc EXCEPT !.open = FALSE, !.event = NoProps,
                                      !.timezones = NoProps]
            IN IF TruthyDate(acc.event, "RECURRENCE-ID")
               THEN IF TruthyWord(acc.event, "UID")
                    THEN [closed EXCEPT !.exceptions =
                            Append(@, [uid |-> acc.event["UID"], data |-> eventData])]
                    ELSE closed
               ELSE [closed EXCEPT !.mainEvents = Append(@, eventData)]
  ELSE IF acc.open THEN parseEventProperty(line, acc)
  ELSE acc

RECURSIVE GroupLines(_, _)
GroupLines(lines, acc) ==
  IF lines = <<>> THEN acc ELSE GroupLines(Tail(lines), GroupLine(lines[1], acc))

parseEventsFromLines(unfoldedLines) ==
  GroupLines(unfoldedLines,
             [open |-> FALSE, event |-> NoProps, timezones |-> NoProps,
              mainEvents |-> <<>>, exceptions |-> <<>>])

\* recurrenceExceptions.get(uid) || []
RECURSIVE ExceptionsOf(_, _)
ExceptionsOf(exceptions, uid) ==
  IF exceptions = <<>> THEN <<>>
  ELSE (IF exceptions[1].uid = uid THEN <<exceptions[1].data>> ELSE <<>>)
       \o ExceptionsOf(Tail(exceptions), uid)

\* ------------------------------------------------------- isEventDeleted

\* String.prototype.toUpperCase on the words of the model.
ToUpper(w) ==
  IF w \in {"cancelled", "Cancelled", "CANCELLED"} THEN "CANCELLED"
  ELSE IF w \in {"cancel", "CANCEL"} THEN "CANCEL"
  ELSE w

\* A test of deletion that knows STATUS in capitals only.
isEventDeletedCaseSensitive(event) ==
  \/ TruthyWord(event, "STATUS") /\ event["STATUS"] = "CANCELLED"
  \/ TruthyWord(event, "METHOD") /\ ToUpper(event["METHOD"]) = "CANCEL"
  \/ TruthyText(event, "SEQUENCE")
       /\ LET n == parseInt(event["SEQUENCE"]) IN ~n.nan /\ n.v > 100
  \/ TruthyWord(event, "X-APPLE-DELETED-DATE") \/ TruthyWord(event, "X-APPLE-DELETED")
  \/ TruthyWord(event, "X-GOOGLE-DELETED")
  \/ Has(event, "STATUS") /\ event["STATUS"] = "DELETED"
  \/ ~TruthyDate(event, "DTSTART") /\ ~TruthyText(event, "SUMMARY")

isEventDeleted(event) ==
  \/ TruthyWord(event, "STATUS") /\ ToUpper(event["STATUS"]) = "CANCELLED"
  \/ TruthyWord(event, "METHOD") /\ ToUpper(event["METHOD"]) = "CANCEL"
  \/ TruthyText(event, "SEQUENCE")
       /\ LET n == parseInt(event["SEQUENCE"]) IN ~n.nan /\ n.v > 100
  \/ TruthyWord(event, "X-APPLE-DELETED-DATE") \/ TruthyWord(event, "X-APPLE-DELETED")
  \/ TruthyWord(event, "X-GOOGLE-DELETED")
  \/ Has(event, "STATUS") /\ event["STATUS"] = "DELETED"
  \/ ~TruthyDate(event, "DTSTART") /\ ~TruthyText(event, "SUMMARY")

\* ------------------------------------------------------ occurrence records

GetDate(map, k) == IF Has(map, k) THEN map[k] ELSE EmptyStr

GetText(map, k) == IF Has(map, k) THEN map[k] ELSE <<>>

GetZone(map, k) == IF Has(map, k) THEN map[k] ELSE NoZone

\* A record that keeps all five fields, the empty ones too.
TransformedWithEmpty(start, end, title, description, address) ==
  [start |-> start, end |-> end, title |-> title,
   description |-> description, address |-> address]

\* The transformedEvent object: only the truthy values become fields.
Transformed(start, end, title, description, address) ==
  LET vals == [start |-> start, end |-> end, title |-> title,
               description |-> description, address |-> address]
      keep == {k \in {"start", "end"} : TruthyStr(vals[k])}
              \cup {k \in {"title", "description", "address"} : vals[k] # <<>>}
  IN [k \in keep |-> vals[k]]

\* The end of an event: a date-only DTEND is marked for adjustment.
EventEnd(event, timezones) ==
  IF TruthyDate(event, "DTEND")
  THEN IF event["DTEND"].fmt = "cdate"
       THEN formatDateToISO(event["DTEND"], FullDayEnd)
       ELSE formatDateToISO(event["DTEND"], GetZone(timezones, "DTEND"))
  ELSE Ret(EmptyStr)

\* createEventFromData: [thrown, null, ev]; null is the return of null.
createEventFromData(event, timezones) ==
  LET start == formatDateToISO(GetDate(event, "DTSTART"), GetZone(timezones, "DTSTART"))
      end == EventEnd(event, timezones)
      ev == Transformed(start.v, end.v, cleanString(GetText(event, "SUMMARY")),
                        cleanString(GetText(event, "DESCRIPTION")),
                        cleanAddress(GetText(event, "LOCATION")))
  IN [thrown |-> start.thrown \/ end.thrown, null |-> ~Has(ev, "start"), ev |-> ev]

\* ------------------------------------------------------------ parseRRule

\* The RRULE value: its parameters in order, each [key, val] as split at
\* the first '='.  val is a word for FREQ, a text for COUNT and INTERVAL, a
\* date text for UNTIL, the list of codes for BYDAY.
Param(key, val) == [key |-> key, val |-> val]

ParamSet(param) ==
  /\ param.key # ""
  /\ param.val # (IF param.key \in {"COUNT", "INTERVAL", "BYDAY"} THEN <<>>
                  ELSE IF param.key = "UNTIL" THEN EmptyStr ELSE "")

\* params[key] after the forEach: the last parameter of that key wins.
HasParam(rrule, key) == \E i \in 1..Len(rrule) : rrule[i].key = key /\ ParamSet(rrule[i])

ParamVal(rrule, key) ==
  LET idx == {i \in 1..Len(rrule) : rrule[i].key = key /\ ParamSet(rrule[i])}
  IN rrule[CHOOSE i \in idx : \A j \in idx : j <= i].val

\* null as a number: count is null when the rule has no COUNT.
NullNum == [nan |-> TRUE, v |-> 0, null |-> TRUE]

\* freq = "" and until = EmptyStr stand for undefined, byday = <<>> for null.
parseRRule(rrule) ==
  [freq |-> IF HasParam(rrule, "FREQ") THEN ParamVal(rrule, "FREQ") ELSE "",
   until |-> IF HasParam(rrule, "UNTIL") THEN ParamVal(rrule, "UNTIL") ELSE EmptyStr,
   count |-> IF HasParam(rrule, "COUNT") THEN parseInt(ParamVal(rrule, "COUNT")) ELSE NullNum,
   interval |-> IF HasParam(rrule, "INTERVAL") THEN parseInt(ParamVal(rrule, "INTERVAL"))
                ELSE Num(1),
   byday |-> IF HasParam(rrule, "BYDAY") THEN ParamVal(rrule, "BYDAY") ELSE <<>>]

\* ------------------------------------------------- the recurrence expander

parseExceptionDates(event, timezones) ==
  LET tz == IF Has(timezones, "EXDATE") THEN timezones["EXDATE"]
            ELSE GetZone(timezones, "DTSTART")
      raw == IF Has(event, "EXDATE") THEN event["EXDATE"] ELSE <<>>
      all == [i \in 1..Len(raw) |-> formatDateToISO(raw[i], tz).v]
  IN SelectSeq(all, TruthyStr)

\* buildExceptionMap: a function from the formatted RECURRENCE-ID to the
\* exception; a later exception of the same key replaces an earlier one.
RECURSIVE buildExceptionMap(_, _)
buildExceptionMap(recurrenceExceptions, defaultTimezones) ==
  IF recurrenceExceptions = <<>> THEN NoProps
  ELSE LET n == Len(recurrenceExceptions)
           exception == recurrenceExceptions[n]
           rest == buildExceptionMap(SubSeq(recurrenceExceptions, 1, n - 1),
                                     defaultTimezones)
           tz == IF Has(exception.timezones, "RECURRENCE-ID")
                 THEN exception.timezones["RECURRENCE-ID"]
                 ELSE GetZone(defaultTimezones, "DTSTART")
           recurrenceIdFormatted ==
             formatDateToISO(GetDate(exception.event, "RECURRENCE-ID"), tz).v
       IN IF TruthyStr(recurrenceIdFormatted)
          THEN Put(rest, recurrenceIdFormatted, exception)
          ELSE rest

\* calculateDuration, in seconds (the texts carry no milliseconds): NaN
\* when either text is no date.
calculateDuration(start, end) ==
  IF ~TruthyStr(end) \/ ~TruthyStr(start) THEN Num(0)
  ELSE LET a == NewDate(start)
           b == NewDate(end)
       IN IF a.ok /\ b.ok THEN Num(b.s - a.s) ELSE NaN

DefaultMaxOccurrences == 100

\* Limits whose occurrence cap is one more.
setupDateLimitsOneMore(start, until, count) ==
  [currentDate |-> NewDate(start),
   untilDate |-> IF until.fmt = "cdate" THEN NewDate([until EXCEPT !.fmt = "date"])
                 ELSE IF until.fmt \in {"cdtz", "cdt"}
                      THEN NewDate(formatDateToISO(until, NoZone).v)
                      ELSE InvalidDate,
   maxOccurrences |-> IF count.nan \/ count.v = 0 THEN DefaultMaxOccurrences + 1
                      ELSE count.v + 1]

\* setupDateLimits.  untilDate = null is the Invalid Date here: the loop
\* only tests untilDate && currentDate > untilDate, false for both.
setupDateLimits(start, until, count) ==
  [currentDate |-> NewDate(start),
   untilDate |-> IF until.fmt = "cdate" THEN NewDate([until EXCEPT !.fmt = "date"])
                 ELSE IF until.fmt \in {"cdtz", "cdt"}
                      THEN NewDate(formatDateToISO(until, NoZone).v)
                      ELSE InvalidDate,
   maxOccurrences |-> IF count.nan \/ count.v = 0 THEN DefaultMaxOccurrences
                      ELSE count.v]

DayCodes == <<"SU", "MO", "TU", "WE", "TH", "FR", "SA">>

\* dayMap[day] === n
DayIs(day, n) == \E i \in 1..7 : DayCodes[i] = day /\ i - 1 = n

shouldIncludeDate(currentDate, freq, byday) ==
  IF byday = <<>> \/ freq # "WEEKLY" THEN TRUE
  ELSE \E i \in 1..Len(byday) : DayIs(byday[i], getDay(currentDate))

\* exdate.split('T')[0]
DatePart(str) ==
  IF str.fmt \in {"dtz", "dt"} THEN IsoStr("date", str.y, str.mo, str.d, 0, 0, 0) ELSE str

\* An exclusion test that compares whole texts, seconds included.
isDateExcludedToTheSecond(eventStart, exdates, isAllDayEvent) ==
  \E i \in 1..Len(exdates) : exdates[i] = eventStart

isDateExcluded(eventStart, exdates, isAllDayEvent) ==
  \E i \in 1..Len(exdates) :
    IF isAllDayEvent THEN DatePart(exdates[i]) = eventStart
    ELSE LET exdateTime == NewDate(exdates[i])
             eventTime == NewDate(eventStart)
         IN /\ exdateTime.ok /\ eventTime.ok
            /\ getFullYear(exdateTime) = getFullYear(eventTime)
            /\ getMonth(exdateTime) = getMonth(eventTime)
            /\ getDate(exdateTime) = getDate(eventTime)
            /\ getHours(exdateTime) = getHours(eventTime)
            /\ getMinutes(exdateTime) = getMinutes(eventTime)

createExceptionEvent(exception) ==
  LET e == exception.event
      tz == exception.timezones
      start == formatDateToISO(GetDate(e, "DTSTART"), GetZone(tz, "DTSTART")).v
      end == IF TruthyDate(e, "DTEND")
             THEN formatDateToISO(e["DTEND"], GetZone(tz, "DTEND")).v
             ELSE EmptyStr
  IN Transformed(start, end, cleanString(GetText(e, "SUMMARY")),
                 cleanString(GetText(e, "DESCRIPTION")),
                 cleanAddress(GetText(e, "LOCATION")))

createNormalEvent(eventStart, eventEnd, eventData) ==
  Transformed(eventStart, eventEnd, eventData.title, eventData.description,
              eventData.address)

\* The start and end texts createOccurrence derives for a cursor position.
SlotStart(currentDate, eventData) ==
  IF eventData.start.fmt = "date" THEN ToIsoDay(currentDate) ELSE ToIsoZ(currentDate)

SlotEnd(currentDate, eventData, durationMs) ==
  LET endDate == IF ~durationMs.nan /\ durationMs.v > 0
                 THEN [currentDate EXCEPT !.s = currentDate.s + durationMs.v]
                 ELSE currentDate
  IN IF eventData.start.fmt = "date"
     THEN IF TruthyStr(eventData.end) THEN ToIsoDay(endDate) ELSE EmptyStr
     ELSE IF ~durationMs.nan /\ durationMs.v > 0 THEN ToIsoZ(endDate) ELSE EmptyStr

\* An occurrence that never looks into the exception map.
createOccurrenceFromRule(currentDate, eventData, durationMs, exdates, exceptionMap) ==
  IF isDateExcluded(SlotStart(currentDate, eventData), exdates, eventData.start.fmt = "date")
  THEN [null |-> TRUE, ev |-> NoProps]
  ELSE [null |-> FALSE,
        ev |-> createNormalEvent(SlotStart(currentDate, eventData),
                                 SlotEnd(currentDate, eventData, durationMs), eventData)]

\* createOccurrence: [null, ev]; null when the slot is excluded.
createOccurrence(currentDate, eventData, durationMs, exdates, exceptionMap) ==
  LET isAllDayEvent == eventData.start.fmt = "date"
      eventStart == SlotStart(currentDate, eventData)
      eventEnd == SlotEnd(currentDate, eventData, durationMs)
  IN IF isDateExcluded(eventStart, exdates, isAllDayEvent)
     THEN [null |-> TRUE, ev |-> NoProps]
     ELSE IF Has(exceptionMap, eventStart)
          THEN [null |-> FALSE, ev |-> createExceptionEvent(exceptionMap[eventStart])]
          ELSE [null |-> FALSE, ev |-> createNormalEvent(eventStart, eventEnd, eventData)]

\* advanceToNextWeeklyDay
advanceToNextWeeklyDay(currentDate, byday, interval) ==
  IF interval.nan THEN InvalidDate
  ELSE LET hits == {n \in 1..(7 * interval.v) :
                      \E i \in 1..Len(byday) :
                        DayIs(byday[i], (getDay(currentDate) + n) % 7)}
       IN IF hits # {}
          THEN AddDays(currentDate, Num(CHOOSE n \in hits : \A m \in hits : n <= m))
          ELSE LET moved == AddDays(currentDate, Num(7 * interval.v))
                   currentDay == getDay(moved)
               IN IF \E t \in 0..6 : DayIs(byday[1], t)
                  THEN LET targetDay == CHOOSE t \in 0..6 : DayIs(byday[1], t)
                       IN AddDays(moved, Num((targetDay - currentDay + 7) % 7))
                  ELSE InvalidDate

UnsupportedFreqJumpYears == 10

\* An advance that takes every interval for 1.
advanceToNextDateByOne(currentDate, freq, interval, byday) ==
  IF freq = "YEARLY" THEN AddYears(currentDate, Num(1))
  ELSE IF freq = "MONTHLY" THEN AddMonths(currentDate, Num(1))
  ELSE IF freq = "WEEKLY" THEN AddDays(currentDate, Num(7))
  ELSE IF freq = "DAILY" THEN AddDays(currentDate, Num(1))
  ELSE AddYears(currentDate, Num(UnsupportedFreqJumpYears))

advanceToNextDate(currentDate, freq, interval, byday) ==
  IF freq = "YEARLY" THEN AddYears(currentDate, interval)
  ELSE IF freq = "MONTHLY" THEN AddMonths(currentDate, interval)
  ELSE IF freq = "WEEKLY"
       THEN IF Len(byday) > 1 THEN advanceToNextWeeklyDay(currentDate, byday, interval)
            ELSE AddDays(currentDate, IF interval.nan THEN NaN ELSE Num(7 * interval.v))
  ELSE IF freq = "DAILY" THEN AddDays(currentDate, interval)
  ELSE AddYears(currentDate, Num(UnsupportedFreqJumpYears))

\* --------------------------------------------------- filterAndSortEvents

MaxResults == 25

\* yesterday: now, setDate(getDate() - 1), setHours(23, 59, 59, 999).
EndOfYesterday(now) ==
  MkDate((DayOf(now) - 1) * SecPerDay + 23 * 3600 + 59 * 60 + 59, 999)

\* The filter callback of filterAndSortEvents.
IsValidEvent(event, now) ==
  /\ Has(event, "start")
  /\ DateGT(NewDate(IF Has(event, "end") THEN event["end"] ELSE event["start"]),
            EndOfYesterday(now))

\* A callback that also puts a record after one of the same start.
StartsAtOrAfter(a, b) ==
  LET dateA == NewDate(a["start"])
      dateB == NewDate(b["start"])
  IN dateA.ok /\ dateB.ok /\ dateA.s >= dateB.s

\* The sort callback: dateA - dateB > 0.  A difference that is NaN orders
\* nothing (the sort takes it as 0).
StartsAfter(a, b) ==
  LET dateA == NewDate(a["start"])
      dateB == NewDate(b["start"])
  IN dateA.ok /\ dateB.ok /\ dateA.s > dateB.s

\* Array.prototype.sort with that callback: a stable sort, here by
\* insertion from the right.
RECURSIVE InsertSorted(_, _)
InsertSorted(sorted, x) ==
  IF sorted = <<>> THEN <<x>>
  ELSE LET n == Len(sorted)
       IN IF StartsAfter(sorted[n], x)
          THEN Append(InsertSorted(SubSeq(sorted, 1, n - 1), x), sorted[n])
          ELSE Append(sorted, x)

RECURSIVE SortByStart(_)
SortByStart(list) ==
  IF list = <<>> THEN <<>>
  ELSE InsertSorted(SortByStart(SubSeq(list, 1, Len(list) - 1)), list[Len(list)])

filterAndSortEvents(list, now) ==
  LET validEvents == SelectSeq(list, LAMBDA e : IsValidEvent(e, now))
      sorted == SortByStart(validEvents)
  IN SubSeq(sorted, 1, IF Len(sorted) < MaxResults THEN Len(sorted) ELSE MaxResults)

\* ------------------------------------------------------------ the feeds

\* The decimal text of an integer.
RECURSIVE NatText(_)
NatText(n) ==
  IF n < 10 THEN <<DigitChars[n + 1]>>
  ELSE Append(NatText(n \div 10), DigitChars[(n % 10) + 1])

IntText(n) == IF n < 0 THEN <<"-">> \o NatText(0 - n) ELSE NatText(n)

CDtz(y, mo, d, h, mi, s) == IsoStr("cdtz", y, mo, d, h, mi, s)

CDt(y, mo, d, h, mi, s) == IsoStr("cdt", y, mo, d, h, mi, s)

CDate(y, mo, d) == IsoStr("cdate", y, mo, d, 0, 0, 0)

\* A value of no recognised form, such as TBD.
Garbage == IsoStr("other", 1, 0, 0, 0, 0, 0)

VEvent(props) == <<BeginLine>> \o props \o <<EndLine>>

\* The wall clock of an invocation: an afternoon, and a midnight sharp.
NowSet ==
  { MkDate(MakeDay(2026, 10, 2) * SecPerDay + 12 * 3600 + 34 * 60 + 56, 789),
    MkDate(MakeDay(2026, 10, 3) * SecPerDay, 0) }

\* The bounds of the feeds.
MaxCount == 3

MaxInterval == 2

\* A date text moved by n days (its time of day and form kept).
PlusDays(text, n) ==
  IF FieldsValid(text)
  THEN LET day == MakeDay(text.y, text.mo - 1, text.d) + n
       IN [text EXCEPT !.y = YearOfDay(day), !.mo = MonthOfDay(day), !.d = DateOfDay(day)]
  ELSE text

\* A date text at another time of day (a date-only text is left alone).
AtTime(text, h, mi, sec) ==
  IF text.fmt = "cdate" THEN text ELSE [text EXCEPT !.h = h, !.mi = mi, !.s = sec]

Opt(present, line) == IF present THEN <<line>> ELSE <<>>

\* DTSTART values with their zone parameter: past, around now, just before
\* the forward horizon, timed and all-day, local with and without a zone,
\* and a date-shaped text that names no date.
Starts ==
  { [v |-> CDtz(2024, 1, 1, 9, 0, 0), tz |-> NoZone],
    [v |-> CDtz(2026, 10, 31, 9, 0, 30), tz |-> NoZone],
    [v |-> CDtz(2028, 10, 30, 9, 0, 0), tz |-> NoZone],
    [v |-> CDate(2026, 10, 31), tz |-> NoZone],
    [v |-> CDate(2028, 10, 31), tz |-> NoZone],
    [v |-> CDt(2026, 11, 1, 9, 0, 0), tz |-> NoZone],
    [v |-> CDt(2026, 11, 1, 11, 0, 0), tz |-> Tallinn],
    [v |-> CDate(2024, 13, 1), tz |-> NoZone] }

\* The RRULE of a feed: freq, and each other parameter when its text is set.
Rule(freq, count, interval, until, byday) ==
  <<Param("FREQ", freq)>>
  \o (IF count = <<>> THEN <<>> ELSE <<Param("COUNT", count)>>)
  \o (IF interval = <<>> THEN <<>> ELSE <<Param("INTERVAL", interval)>>)
  \o (IF until = EmptyStr THEN <<>> ELSE <<Param("UNTIL", until)>>)
  \o (IF byday = <<>> THEN <<>> ELSE <<Param("BYDAY", byday)>>)

\* A recurring base event u1 titled a.
Recurring(start, rule, exdates) ==
  VEvent(<<Line("UID", NoZone, "u1"),
           Line("DTSTART", start.tz, start.v),
           Line("SUMMARY", NoZone, <<"a">>),
           Line("RRULE", NoZone, rule)>>
         \o [i \in 1..Len(exdates) |-> Line("EXDATE", start.tz, exdates[i])])

\* An exception instance of uid for the slot rid: moved to 15:30:00 (a timed
\* one) or to the next day (a date-only one), retitled x or left untitled.
Exception(uid, start, rid, titled) ==
  VEvent(<<Line("UID", NoZone, uid),
           Line("RECURRENCE-ID", start.tz, rid),
           Line("DTSTART", start.tz,
                IF rid.fmt = "cdate" THEN PlusDays(rid, 1) ELSE AtTime(rid, 15, 30, 0))>>
         \o Opt(titled, Line("SUMMARY", NoZone, <<"x">>)))

IntervalTexts == {<<>>} \cup {IntText(k) : k \in 0..MaxInterval}

StepOf(interval) == IF interval = <<>> THEN 1 ELSE parseInt(interval).v

\* The days between two slots of a DAILY or WEEKLY rule.
SlotDays(freq, interval) == (IF freq = "WEEKLY" THEN 7 ELSE 1) * StepOf(interval)

\* DAILY and WEEKLY rules with COUNT: no exclusion, the second slot excluded
\* (at another second of its minute), or the first; no exception instance,
\* one for the second slot (retitled or untitled), or one of another event;
\* UNTIL absent or the midnight after the second slot.
CountedFor(freq, st, iv) ==
  { Recurring(st, Rule(freq, IntText(n), iv, un, <<>>), ex) \o xc :
      n \in 1..MaxCount,
      un \in {EmptyStr} \cup
             { [PlusDays(st.v, SlotDays(freq, iv) + 1) EXCEPT !.fmt = "cdate",
                                                              !.h = 0, !.mi = 0, !.s = 0] },
      ex \in {<<>>, <<AtTime(PlusDays(st.v, SlotDays(freq, iv)), 9, 0, 0)>>, <<st.v>>},
      xc \in {<<>>} \cup
             { Exception(x[1], st, PlusDays(st.v, SlotDays(freq, iv)), x[2]) :
                 x \in {<<"u1", TRUE>>, <<"u1", FALSE>>, <<"u9", TRUE>>} } }

CountedFeeds ==
  UNION { CountedFor(freq, st, iv) :
            freq \in {"DAILY", "WEEKLY"}, st \in Starts, iv \in IntervalTexts }

\* An event of the given UID and further lines.
Event(uid, props) == VEvent(<<Line("UID", NoZone, uid)>> \o props)

\* Rules without a usable COUNT, of every frequency the expander knows, one
\* it does not know and none: the caps of the loop.
CapFeeds ==
  { Recurring(st, Rule(freq, n, iv, un, <<>>), <<>>) :
      st \in { [v |-> CDtz(2026, 10, 31, 9, 0, 30), tz |-> NoZone],
               [v |-> CDate(2024, 1, 31), tz |-> NoZone] },
      freq \in {"DAILY", "WEEKLY", "MONTHLY", "YEARLY", "HOURLY", ""},
      n \in {<<>>, IntText(0), IntText(-1), <<"x">>, IntText(MaxCount)},
      iv \in {<<>>, IntText(0), IntText(MaxInterval + 1), <<"x">>},
      un \in {EmptyStr, CDtz(2035, 1, 1, 0, 0, 0)} }

\* WEEKLY rules with BYDAY from a Monday and from a Tuesday.
WeeklyFeeds ==
  { Recurring([v |-> st, tz |-> NoZone], Rule("WEEKLY", IntText(n), iv, EmptyStr, days), <<>>) :
      st \in {CDtz(2024, 1, 1, 9, 0, 0), CDtz(2024, 1, 2, 9, 0, 0)},
      n \in {MaxCount, MaxCount + 1},
      iv \in {<<>>} \cup {IntText(k) : k \in 1..MaxInterval},
      days \in {<<"MO", "WE">>, <<"WE", "MO">>, <<"TU", "TH", "SA">>, <<"SU", "MO">>,
                <<"MO">>, <<"FR">>} }

\* More occurrences than the selector returns: a DAILY rule whose first two
\* slots are over, around it single events: one that started long ago and
\* still runs, one over, one at the instant of a slot, one all-day.
SelectCount == MaxResults + 3

SelectSingles ==
  << Event("s1", <<Line("DTSTART", NoZone, CDtz(2026, 10, 1, 8, 0, 0)),
                   Line("DTEND", NoZone, CDtz(2026, 11, 5, 8, 0, 0)),
                   Line("SUMMARY", NoZone, <<"l">>)>>),
     Event("s2", <<Line("DTSTART", NoZone, CDtz(2026, 11, 1, 8, 0, 0)),
                   Line("DTEND", NoZone, CDtz(2026, 11, 1, 23, 59, 59)),
                   Line("SUMMARY", NoZone, <<"o">>)>>),
     Event("s3", <<Line("DTSTART", NoZone, CDtz(2026, 11, 4, 0, 0, 0)),
                   Line("SUMMARY", NoZone, <<"t">>)>>),
     Event("s4", <<Line("DTSTART", NoZone, CDate(2026, 11, 4)),
                   Line("SUMMARY", NoZone, <<"d">>)>>) >>

SelectFeeds ==
  { (IF 1 \in before THEN SelectSingles[1] ELSE <<>>)
    \o (IF 2 \in before THEN SelectSingles[2] ELSE <<>>)
    \o (IF 3 \in before THEN SelectSingles[3] ELSE <<>>)
    \o (IF 4 \in before THEN SelectSingles[4] ELSE <<>>)
    \o Recurring([v |-> st, tz |-> NoZone],
                 Rule("DAILY", IntText(SelectCount), <<>>, EmptyStr, <<>>), <<>>)
    \o (IF 4 \in after THEN SelectSingles[4] ELSE <<>>)
    \o (IF 3 \in after THEN SelectSingles[3] ELSE <<>>)
    \o (IF 1 \in after THEN SelectSingles[1] ELSE <<>>) :
      st \in {CDtz(2026, 10, 31, 0, 0, 0)},
      before \in SUBSET {1, 2, 3, 4},
      after \in SUBSET {1, 3, 4} }

\* Single events: DTSTART, DTEND, SUMMARY, LOCATION and STATUS absent, well
\* formed, empty after cleaning, of no recognised form, or date-shaped and
\* naming no date.
SingleFeeds ==
  { Event("u1", Opt(st # EmptyStr, Line("DTSTART", NoZone, st))
                \o Opt(en # EmptyStr, Line("DTEND", NoZone, en))
                \o Opt(su # <<"-">>, Line("SUMMARY", NoZone, su))
                \o Opt(lo # <<"-">>, Line("LOCATION", NoZone, lo))
                \o Opt(status # "", Line("STATUS", NoZone, status))) :
      st \in {EmptyStr, CDtz(2026, 11, 2, 9, 0, 0), CDate(2026, 11, 3), Garbage,
              CDate(2024, 13, 1)},
      en \in {EmptyStr, CDtz(2026, 11, 2, 10, 0, 0), CDate(2026, 11, 4), CDate(2024, 13, 1),
              Garbage},
      su \in {<<"-">>, <<"a">>, <<"BS", "n">>, <<"SP">>, <<>>},
      lo \in {<<"-">>, <<"SP">>, <<"r", "BS", ",", "SP", "t">>},
      status \in {"", "CANCELLED", "cancelled", "CONFIRMED"} }

\* A recurring base event with a STATUS or another mark of deletion, an
\* exception instance of its second slot (moved and retitled, or without a
\* DTSTART of its own), and a single event after it.
MarkedFeeds ==
  { VEvent(<<Line("UID", NoZone, "u1"),
             Line("DTSTART", NoZone, CDtz(2026, 11, 2, 9, 0, 0)),
             Line("DTEND", NoZone, CDtz(2026, 11, 2, 10, 0, 0)),
             Line("SUMMARY", NoZone, <<"a">>),
             Line("RRULE", NoZone, Rule("DAILY", IntText(MaxCount), <<>>, EmptyStr, <<>>))>>
           \o mark)
    \o VEvent(<<Line("UID", NoZone, "u1"),
                Line("RECURRENCE-ID", NoZone, CDtz(2026, 11, 3, 9, 0, 0))>>
              \o Opt(moved, Line("DTSTART", NoZone, CDtz(2026, 11, 3, 15, 30, 0)))
              \o <<Line("DTEND", NoZone, CDtz(2026, 11, 3, 16, 0, 0)),
                   Line("SUMMARY", NoZone, <<"x">>)>>)
    \o Event("u2", <<Line("DTSTART", NoZone, CDate(2026, 11, 3)),
                     Line("SUMMARY", NoZone, <<"b">>)>> \o mark2) :
      moved \in BOOLEAN,
      mark \in { <<>>,
                 <<Line("STATUS", NoZone, "CANCELLED")>>,
                 <<Line("STATUS", NoZone, "cancelled")>>,
                 <<Line("STATUS", NoZone, "Cancelled")>>,
                 <<Line("STATUS", NoZone, "CONFIRMED")>>,
                 <<Line("STATUS", NoZone, "DELETED")>>,
                 <<Line("METHOD", NoZone, "cancel")>>,
                 <<Line("SEQUENCE", NoZone, IntText(100))>>,
                 <<Line("SEQUENCE", NoZone, IntText(101))>>,
                 <<Line("X-APPLE-DELETED", NoZone, "TRUE")>>,
                 <<Line("", NoZone, "")>> },
      mark2 \in {<<>>, <<Line("STATUS", NoZone, "Cancelled")>>} }

\* All-day recurring base events with a date-only DTEND one or two days
\* after DTSTART, without an exception instance or with one for the second
\* slot, titled x, all-day with a date-only DTEND two days after its start.
AllDayFeeds ==
  { VEvent(<<Line("UID", NoZone, "u1"),
             Line("DTSTART", NoZone, st),
             Line("DTEND", NoZone, PlusDays(st, len)),
             Line("SUMMARY", NoZone, <<"a">>),
             Line("RRULE", NoZone, Rule("DAILY", IntText(MaxCount), iv, EmptyStr, <<>>))>>)
    \o (IF moved = 0 THEN <<>>
        ELSE VEvent(<<Line("UID", NoZone, "u1"),
                      Line("RECURRENCE-ID", NoZone, PlusDays(st, StepOf(iv))),
                      Line("DTSTART", NoZone, PlusDays(st, StepOf(iv) + moved - 1)),
                      Line("DTEND", NoZone, PlusDays(st, StepOf(iv) + moved + 1)),
                      Line("SUMMARY", NoZone, <<"x">>)>>)) :
      st \in {CDate(2024, 3, 10), CDate(2026, 11, 2)},
      len \in {1, 2},
      iv \in {<<>>, IntText(MaxInterval)},
      moved \in {0, 1, 2} }

\* Rules of a frequency the expander does not know, from years ago.
OldFeeds ==
  { Recurring([v |-> st, tz |-> NoZone], Rule(freq, n, <<>>, EmptyStr, <<>>), <<>>) :
      st \in {CDtz(2010, 1, 1, 9, 0, 0), CDtz(2018, 6, 1, 9, 0, 0)},
      freq \in {"HOURLY", "SECONDLY"},
      n \in {<<>>, IntText(MaxCount)} }

Feeds ==
  OldFeeds \cup AllDayFeeds \cup CountedFeeds \cup CapFeeds \cup WeeklyFeeds \cup SelectFeeds \cup SingleFeeds
  \cup MarkedFeeds

\* ------------------------------------------------------------ the machine

VARIABLES
  pc,                  \* where main is: start, fetching, reading, parse, expand, done
  args,                \* [url]: whether args.url is truthy
  now,                 \* the wall clock of the invocation
  mainEvents,          \* parseEventsFromLines: the base events
  recurrenceExceptions,\* parseEventsFromLines: the exception instances, by UID
  idx,                 \* the position of mainEvents.forEach (1-based)
  events,              \* parseICS: events
  origin,              \* history: origin[i] is the base event that pushed events[i]
  gen,                 \* generateOccurrences: the constants of the running loop
  currentDate,         \* generateOccurrences: the cursor
  occurrenceCount,     \* generateOccurrences: occurrenceCount
  occ,                 \* generateOccurrences: its local events
  ret,                 \* what main returned or threw: [kind, text, list]
  input,               \* the argument of a function applied on its own
  output               \* the results of its applications, in order

vars == <<pc, args, now, mainEvents, recurrenceExceptions, idx, events, origin,
          gen, currentDate, occurrenceCount, occ, ret, input, output>>

NoGen ==
  [eventData |-> [start |-> EmptyStr, end |-> EmptyStr, title |-> <<>>,
                  description |-> <<>>, address |-> <<>>],
   rruleParams |-> parseRRule(<<>>), exdates |-> <<>>, exceptionMap |-> NoProps,
   durationMs |-> Num(0), untilDate |-> InvalidDate, maxOccurrences |-> 0]

\* main takes no argument but args.
NoInput == [kind |-> "none"]

Pending == [kind |-> "pending", text |-> "", list |-> <<>>]

ReturnText(text) == [kind |-> "string", text |-> text, list |-> <<>>]

ReturnList(list) == [kind |-> "list", text |-> "", list |-> list]

\* main's promise rejects with the error.
Thrown(error) == [kind |-> "thrown", text |-> error, list |-> <<>>]

Init ==
  /\ pc = "start"
  /\ args \in {[url |-> TRUE], [url |-> FALSE]}
  /\ now \in NowSet
  /\ mainEvents = <<>>
  /\ recurrenceExceptions = <<>>
  /\ idx = 1
  /\ events = <<>>
  /\ origin = <<>>
  /\ gen = NoGen
  /\ currentDate = InvalidDate
  /\ occurrenceCount = 0
  /\ occ = <<>>
  /\ ret = Pending
  /\ input = NoInput
  /\ output = <<>>

engineVars == <<mainEvents, recurrenceExceptions, idx, events, origin, gen,
                currentDate, occurrenceCount, occ>>

\* if (!args.url) return { body: 'No URL provided' }
MainNoUrl ==
  /\ pc = "start" /\ ~args.url
  /\ pc' = "done"
  /\ ret' = ReturnText("No URL provided")
  /\ UNCHANGED <<args, now, input, output, engineVars>>

\* await fetch(args.url): the request is out.
MainFetch ==
  /\ pc = "start" /\ args.url
  /\ pc' = "fetching"
  /\ UNCHANGED <<args, now, input, output, engineVars, ret>>

\* fetch rejects (no route, DNS failure, malformed URL): main has no
\* try/catch, so its promise rejects.
FetchRejects ==
  /\ pc = "fetching"
  /\ pc' = "done"
  /\ ret' = Thrown("TypeError: fetch failed")
  /\ UNCHANGED <<args, now, input, output, engineVars>>

\* if (!response.ok) return { body: `Error fetching data: ...` }
FetchNotOk ==
  /\ pc = "fetching"
  /\ pc' = "done"
  /\ ret' = ReturnText("Error fetching data")
  /\ UNCHANGED <<args, now, input, output, engineVars>>

\* The response is OK: await response.text().
FetchOk ==
  /\ pc = "fetching"
  /\ pc' = "reading"
  /\ UNCHANGED <<args, now, input, output, engineVars, ret>>

\* response.text() rejects (the body stream fails).
TextRejects ==
  /\ pc = "reading"
  /\ pc' = "done"
  /\ ret' = Thrown("TypeError: terminated")
  /\ UNCHANGED <<args, now, input, output, engineVars>>

\* parseICS starts on the text: unfoldICSLines and parseEventsFromLines.
ParseStart ==
  /\ pc = "reading"
  /\ \E feed \in Feeds :
       LET grouped == parseEventsFromLines(feed)
       IN /\ mainEvents' = grouped.mainEvents
          /\ recurrenceExceptions' = grouped.exceptions
  /\ pc' = "parse"
  /\ idx' = 1
  /\ events' = <<>>
  /\ origin' = <<>>
  /\ UNCHANGED <<args, now, input, output, gen, currentDate, occurrenceCount, occ, ret>>

\* mainEvents.forEach: a deleted event is passed over.
SkipDeleted ==
  /\ pc = "parse" /\ idx <= Len(mainEvents)
  /\ isEventDeleted(mainEvents[idx].event)
  /\ idx' = idx + 1
  /\ UNCHANGED <<pc, args, now, input, output, mainEvents, recurrenceExceptions, events, origin,
                 gen, currentDate, occurrenceCount, occ, ret, input, output>>

\* if (event.RRULE)
HasRRule(event) == Has(event, "RRULE") /\ event["RRULE"] # <<>>

\* mainEvents.forEach: an event without RRULE goes through
\* createEventFromData, whose exception nothing catches.
SingleEvent ==
  /\ pc = "parse" /\ idx <= Len(mainEvents)
  /\ ~isEventDeleted(mainEvents[idx].event)
  /\ ~HasRRule(mainEvents[idx].event)
  /\ LET single == createEventFromData(mainEvents[idx].event, mainEvents[idx].timezones)
     IN IF single.thrown
        THEN /\ pc' = "done"
             /\ ret' = Thrown("RangeError: Invalid time value")
             /\ UNCHANGED <<idx, events, origin>>
        ELSE /\ events' = IF single.null THEN events ELSE Append(events, single.ev)
             /\ origin' = IF single.null THEN origin ELSE Append(origin, idx)
             /\ idx' = idx + 1
             /\ UNCHANGED <<pc, ret>>
  /\ UNCHANGED <<args, now, input, output, mainEvents, recurrenceExceptions, gen, currentDate,
                 occurrenceCount, occ>>

\* now + 2 * 365 * 24 * 60 * 60 * 1000
Horizon(t) == [t EXCEPT !.s = t.s + 2 * 365 * SecPerDay]

\* generateRecurringEvents up to the loop of generateOccurrences:
\* [thrown, empty, gen, currentDate]; empty is a return of [] before the loop.
generateRecurringEvents(event, timezones, exceptions) ==
  LET start == formatDateToISO(GetDate(event, "DTSTART"), GetZone(timezones, "DTSTART"))
      end == EventEnd(event, timezones)
      rruleParams == parseRRule(event["RRULE"])
      eventData == [start |-> start.v, end |-> end.v,
                    title |-> cleanString(GetText(event, "SUMMARY")),
                    description |-> cleanString(GetText(event, "DESCRIPTION")),
                    address |-> cleanAddress(GetText(event, "LOCATION"))]
      limits == setupDateLimits(start.v, rruleParams.until, rruleParams.count)
  IN IF ~TruthyStr(start.v)
     THEN [thrown |-> FALSE, empty |-> TRUE, gen |-> NoGen, currentDate |-> InvalidDate]
     ELSE IF end.thrown
     THEN [thrown |-> TRUE, empty |-> FALSE, gen |-> NoGen, currentDate |-> InvalidDate]
     ELSE IF rruleParams.freq = ""
     THEN [thrown |-> FALSE, empty |-> TRUE, gen |-> NoGen, currentDate |-> InvalidDate]
     ELSE [thrown |-> FALSE, empty |-> FALSE,
           gen |-> [eventData |-> eventData, rruleParams |-> rruleParams,
                    exdates |-> parseExceptionDates(event, timezones),
                    exceptionMap |-> buildExceptionMap(exceptions, timezones),
                    durationMs |-> calculateDuration(start.v, end.v),
                    untilDate |-> limits.untilDate,
                    maxOccurrences |-> limits.maxOccurrences],
           currentDate |-> limits.currentDate]

\* mainEvents.forEach: an event with RRULE enters generateRecurringEvents.
RecurringEvent ==
  /\ pc = "parse" /\ idx <= Len(mainEvents)
  /\ ~isEventDeleted(mainEvents[idx].event)
  /\ HasRRule(mainEvents[idx].event)
  /\ LET event == mainEvents[idx].event
         uid == IF Has(event, "UID") THEN event["UID"] ELSE ""
         g == generateRecurringEvents(event, mainEvents[idx].timezones,
                                      ExceptionsOf(recurrenceExceptions, uid))
     IN IF g.thrown
        THEN /\ pc' = "done"
             /\ ret' = Thrown("RangeError: Invalid time value")
             /\ UNCHANGED <<idx, gen, currentDate>>
        ELSE IF g.empty
        THEN /\ idx' = idx + 1
             /\ UNCHANGED <<pc, ret, gen, currentDate>>
        ELSE /\ pc' = "expand"
             /\ gen' = g.gen
             /\ currentDate' = g.currentDate
             /\ UNCHANGED <<idx, ret>>
  /\ occurrenceCount' = 0
  /\ occ' = <<>>
  /\ UNCHANGED <<args, now, input, output, mainEvents, recurrenceExceptions, events, origin>>

\* The condition of the while loop, and the break on UNTIL.
LoopCond ==
  /\ occurrenceCount < gen.maxOccurrences
  /\ DateLE(currentDate, Horizon(now))

UntilBreak == DateGT(currentDate, gen.untilDate)

\* One iteration of the loop of generateOccurrences.
ExpandIter ==
  /\ pc = "expand" /\ LoopCond /\ ~UntilBreak
  /\ LET r == gen.rruleParams
         occurrence == createOccurrence(currentDate, gen.eventData, gen.durationMs,
                                        gen.exdates, gen.exceptionMap)
         pushed == shouldIncludeDate(currentDate, r.freq, r.byday) /\ ~occurrence.null
     IN /\ occ' = IF pushed THEN Append(occ, occurrence.ev) ELSE occ
        /\ occurrenceCount' = IF pushed THEN occurrenceCount + 1 ELSE occurrenceCount
        /\ currentDate' = advanceToNextDate(currentDate, r.freq, r.interval, r.byday)
  /\ UNCHANGED <<pc, args, now, input, output, mainEvents, recurrenceExceptions, idx, events,
                 origin, gen, ret>>

\* The loop ends: generateOccurrences returns and parseICS pushes its list.
ExpandReturn ==
  /\ pc = "expand" /\ (~LoopCond \/ UntilBreak)
  /\ events' = events \o occ
  /\ origin' = origin \o [i \in 1..Len(occ) |-> idx]
  /\ idx' = idx + 1
  /\ pc' = "parse"
  /\ gen' = NoGen
  /\ currentDate' = InvalidDate
  /\ occurrenceCount' = 0
  /\ occ' = <<>>
  /\ UNCHANGED <<args, now, input, output, mainEvents, recurrenceExceptions, ret>>

\* parseICS has returned: filterAndSortEvents, and main returns the body.
Select ==
  /\ pc = "parse" /\ idx > Len(mainEvents)
  /\ pc' = "done"
  /\ ret' = ReturnList(filterAndSortEvents(events, now))
  /\ UNCHANGED <<args, now, input, output, engineVars>>

Next ==
  \/ MainNoUrl
  \/ MainFetch
  \/ FetchRejects
  \/ FetchNotOk
  \/ FetchOk
  \/ TextRejects
  \/ ParseStart
  \/ SkipDeleted
  \/ SingleEvent
  \/ RecurringEvent
  \/ ExpandIter
  \/ ExpandReturn
  \/ Select

Spec == Init /\ [][Next]_vars

\* ------------------------------------------ functions applied on their own

\* The machine at rest while a function is applied on its own.
AtRest ==
  /\ pc = "apply"
  /\ args = [url |-> FALSE]
  /\ now = MkDate(MakeDay(2026, 10, 2) * SecPerDay, 0)
  /\ mainEvents = <<>>
  /\ recurrenceExceptions = <<>>
  /\ idx = 1
  /\ events = <<>>
  /\ origin = <<>>
  /\ gen = NoGen
  /\ currentDate = InvalidDate
  /\ occurrenceCount = 0
  /\ occ = <<>>
  /\ ret = Pending

machineVars == <<pc, args, now, engineVars, ret>>

\* The texts of at most MaxText characters among backslash, n, N, r, t,
\* comma, semicolon, double quote and a letter.
MaxText == 3

EscapeChars == {"BS", "n", "N", "r", "t", ",", ";", "QT", "a"}

RECURSIVE TextsUpTo(_)
TextsUpTo(n) ==
  IF n = 0 THEN {<<>>}
  ELSE LET shorter == TextsUpTo(n - 1)
       IN shorter \cup {Append(t, c) : t \in {u \in shorter : Len(u) = n - 1},
                                       c \in EscapeChars}

UnescapeInit ==
  /\ AtRest
  /\ input \in TextsUpTo(MaxText)
  /\ output = <<>>

\* unescapeICS applied to the text, then to its own result.
ApplyUnescape ==
  /\ pc = "apply" /\ Len(output) < 2
  /\ output' = Append(output, unescapeICS(IF output = <<>> THEN input
                                          ELSE output[Len(output)]))
  /\ UNCHANGED <<machineVars, input>>

UnescapeNext == ApplyUnescape

UnescapeSpec == UnescapeInit /\ [][UnescapeNext]_vars

\* Date and time values in the three encodings, and the zone contexts.
FormatDays ==
  { <<2026, 11, 1, 9, 0, 0>>, <<2026, 3, 29, 3, 30, 0>>, <<2026, 10, 25, 3, 30, 0>>,
    <<2024, 2, 29, 23, 59, 59>>, <<2026, 12, 31, 23, 30, 0>>, <<2026, 1, 1, 0, 0, 0>> }

FormatValues ==
  { CDtz(d[1], d[2], d[3], d[4], d[5], d[6]) : d \in FormatDays }
  \cup { CDt(d[1], d[2], d[3], d[4], d[5], d[6]) : d \in FormatDays }
  \cup { CDate(d[1], d[2], d[3]) : d \in FormatDays }

FormatZones == {NoZone, GmtZone(1, 2, 0), GmtZone(-1, 5, 30), Tallinn, UnknownZone}

FormatInit ==
  /\ AtRest
  /\ input \in [v : FormatValues, tz : FormatZones]
  /\ output = <<>>

\* formatDateToISO applied to the value in its zone context.
ApplyFormat ==
  /\ pc = "apply" /\ output = <<>>
  /\ output' = <<formatDateToISO(input.v, input.tz)>>
  /\ UNCHANGED <<machineVars, input>>

FormatNext == ApplyFormat

FormatSpec == FormatInit /\ [][FormatNext]_vars

\* ------------------------------------------------------------ the claims

\* The loop of generateOccurrences has ended and its list is about to be
\* returned.
LoopDone == pc = "expand" /\ (~LoopCond \/ UntilBreak)

\* The start of the base event of the running expansion, as an instant.
BaseStart == NewDate(gen.eventData.start)

\* The number of days between slots of a DAILY or WEEKLY rule.
DayStep ==
  (IF gen.rruleParams.freq = "WEEKLY" THEN 7 ELSE 1) * gen.rruleParams.interval.v

\* The i-th cursor position of a DAILY or WEEKLY rule, as an instant.
SlotInstant(i) == [BaseStart EXCEPT !.s = BaseStart.s + i * DayStep * SecPerDay]

\* The slots 0..i are all within the forward horizon of now + 2 * 365 days.
WithinHorizon(i) ==
  BaseStart.ok /\ \A j \in 0..i : DateLE(SlotInstant(j), Horizon(now))

\* An occurrence starts at an instant, in the form of the base event: a
\* date for an all-day event, a UTC instant for a timed one.
StartsAt(occurrence, instant) ==
  /\ Has(occurrence, "start")
  /\ occurrence["start"].fmt = (IF gen.eventData.start.fmt = "date" THEN "date" ELSE "dtz")
  /\ NewDate(occurrence["start"]) = instant

\* The running expansion is of FREQ=DAILY;COUNT=n with INTERVAL=k or none,
\* without exclusion dates and exception instances, and its loop has ended.
DailyCountCase ==
  /\ LoopDone
  /\ gen.rruleParams.freq = "DAILY"
  /\ ~gen.rruleParams.count.nan /\ gen.rruleParams.count.v > 0
  /\ ~gen.rruleParams.interval.nan
  /\ gen.rruleParams.until = EmptyStr
  /\ gen.exdates = <<>>
  /\ DOMAIN gen.exceptionMap = {}

\* C3 as claimed: FREQ=DAILY;COUNT=n;INTERVAL=k without exclusions and
\* exceptions generates exactly n occurrences, the i-th starting i*k days
\* after the base start, for any DTSTART that is a date.
C3_AsClaimed ==
  DailyCountCase /\ BaseStart.ok =>
    /\ Len(occ) = gen.rruleParams.count.v
    /\ \A i \in 0..(Len(occ) - 1) : StartsAt(occ[i + 1], SlotInstant(i))

\* C3: FREQ=DAILY;COUNT=n;INTERVAL=k without exclusions and exceptions
\* generates the occurrences i = 0..n-1 whose start, i*k days after the base
\* start, is not later than now + 2 * 365 days, each starting exactly there:
\* exactly n when the last of them is within that horizon, and none when
\* DTSTART names no date.
C3_DailyCountWithinHorizon ==
  DailyCountCase =>
    /\ Len(occ) = Cardinality({i \in 0..(gen.rruleParams.count.v - 1) : WithinHorizon(i)})
    /\ \A i \in 0..(Len(occ) - 1) : StartsAt(occ[i + 1], SlotInstant(i))

\* C3's case: COUNT = MaxCount occurrences two or more days apart.
C3_Witness ==
  /\ DailyCountCase
  /\ gen.rruleParams.interval.v >= 2
  /\ gen.rruleParams.count.v >= 3
  /\ Len(occ) = gen.rruleParams.count.v

\* An exclusion date matches an instant as the claim has it: the same
\* calendar day for an all-day event, the same minute for a timed one.
ExclusionMatches(exdate, instant) ==
  LET x == NewDate(exdate)
  IN /\ x.ok /\ instant.ok
     /\ IF gen.eventData.start.fmt = "date" THEN DayOf(x) = DayOf(instant)
        ELSE x.s \div 60 = instant.s \div 60

\* The slots 0..i are all within the forward horizon and the UNTIL bound.
WithinBounds(i) ==
  /\ WithinHorizon(i)
  /\ \A j \in 0..i : ~DateGT(SlotInstant(j), gen.untilDate)

\* The occurrence of slot i when nothing is excluded.
UnexcludedAt(i) ==
  createOccurrence(SlotInstant(i), gen.eventData, gen.durationMs, <<>>,
                   gen.exceptionMap).ev

\* The one slot among 0..n-1 that the exclusion date matches.
ExcludedSlot ==
  CHOOSE j \in 0..(gen.rruleParams.count.v - 1) :
    ExclusionMatches(gen.exdates[1], SlotInstant(j))

\* The running expansion is of a DAILY or WEEKLY rule with COUNT=n and no
\* BYDAY, with one exclusion date, which matches exactly one of the slots
\* 0..n, that one among 0..n-1 and within the bounds; and its loop has ended.
OneExclusionCase ==
  /\ LoopDone
  /\ gen.rruleParams.freq \in {"DAILY", "WEEKLY"}
  /\ gen.rruleParams.byday = <<>>
  /\ ~gen.rruleParams.count.nan /\ gen.rruleParams.count.v > 0
  /\ ~gen.rruleParams.interval.nan
  /\ Len(gen.exdates) = 1
  /\ Cardinality({j \in 0..gen.rruleParams.count.v :
                    ExclusionMatches(gen.exdates[1], SlotInstant(j))}) = 1
  /\ \E j \in 0..(gen.rruleParams.count.v - 1) :
       ExclusionMatches(gen.exdates[1], SlotInstant(j)) /\ WithinBounds(j)

\* The slot of the p-th occurrence (p = 1..n) when ExcludedSlot is skipped.
SlotOfPlace(p) == IF p - 1 < ExcludedSlot THEN p - 1 ELSE p

BaseEvent == mainEvents[idx]

BaseExceptions ==
  ExceptionsOf(recurrenceExceptions,
               IF Has(BaseEvent.event, "UID") THEN BaseEvent.event["UID"] ELSE "")

\* The normalized RECURRENCE-ID of an exception instance.
NormalizedRid(exception) ==
  formatDateToISO(exception.event["RECURRENCE-ID"],
                  IF Has(exception.timezones, "RECURRENCE-ID")
                  THEN exception.timezones["RECURRENCE-ID"]
                  ELSE GetZone(BaseEvent.timezones, "DTSTART")).v

\* The record of an exception instance's own fields, field by field.
OwnFields(exception) ==
  LET e == exception.event
      start == formatDateToISO(GetDate(e, "DTSTART"),
                               GetZone(exception.timezones, "DTSTART")).v
      end == formatDateToISO(GetDate(e, "DTEND"), GetZone(exception.timezones, "DTEND")).v
      own == [start |-> start, end |-> end,
              title |-> cleanString(GetText(e, "SUMMARY")),
              description |-> cleanString(GetText(e, "DESCRIPTION")),
              address |-> cleanAddress(GetText(e, "LOCATION"))]
  IN [k \in {f \in {"start", "end"} : own[f] # EmptyStr}
            \cup {f \in {"title", "description", "address"} : own[f] # <<>>} |-> own[k]]

\* The cursor is at a generated slot that is not excluded.
AtOpenSlot ==
  /\ pc = "expand" /\ LoopCond /\ ~UntilBreak
  /\ shouldIncludeDate(currentDate, gen.rruleParams.freq, gen.rruleParams.byday)
  /\ \A i \in 1..Len(gen.exdates) : ~ExclusionMatches(gen.exdates[i], currentDate)

\* The exception instances of the base event whose normalized RECURRENCE-ID
\* is the start of the slot at the cursor.
SlotExceptions ==
  {i \in 1..Len(BaseExceptions) :
     NormalizedRid(BaseExceptions[i]) = SlotStart(currentDate, gen.eventData)}

\* C5: when the normalized RECURRENCE-ID of an exception instance of the
\* base event equals the start of a generated, non-excluded slot, the one
\* occurrence emitted for that slot is the record of the exception's own
\* fields, whatever the base event's fields are.
C5_ExceptionReplacesSlot ==
  [][AtOpenSlot /\ SlotExceptions # {} =>
       /\ Len(occ') = Len(occ) + 1
       /\ \E i \in SlotExceptions : occ'[Len(occ')] = OwnFields(BaseExceptions[i])]_vars

\* C5's case: the last occurrence emitted is an untitled exception instance
\* moved away from its slot, while the base event has a title.
C5_Witness ==
  /\ pc = "expand" /\ Len(occ) >= 2
  /\ gen.eventData.title # <<>>
  /\ ~Has(occ[Len(occ)], "title")
  /\ \E i \in 1..Len(BaseExceptions) :
       /\ occ[Len(occ)] = OwnFields(BaseExceptions[i])
       /\ occ[Len(occ)]["start"] # NormalizedRid(BaseExceptions[i])
       /\ NormalizedRid(BaseExceptions[i]).fmt \in {"date", "dtz"}

\* The cap of the running expansion as the claim has it: COUNT when the rule
\* gives a positive one, 100 otherwise.
OccurrenceCap ==
  IF ~gen.rruleParams.count.nan /\ gen.rruleParams.count.v > 0
  THEN gen.rruleParams.count.v
  ELSE 100

\* now + 2 years, the years of 365 days.
TwoYearsOn == MkDate(now.s + 2 * 365 * 24 * 3600, now.ms)

NotLater(a, b) == a.ok /\ b.ok /\ (a.s < b.s \/ (a.s = b.s /\ a.ms <= b.ms))

\* C6: an expansion never holds more occurrences than its positive COUNT,
\* or than 100 when the rule gives none, and an occurrence is only emitted
\* for a cursor position that is not later than now + 2 years.
C6_CountCapAndHorizon ==
  /\ [](pc = "expand" => Len(occ) <= OccurrenceCap)
  /\ [][pc = "expand" /\ occ' # occ /\ pc' = "expand" =>
          /\ occ' = Append(occ, occ'[Len(occ')])
          /\ NotLater(currentDate, TwoYearsOn)]_vars

\* C6's case: a rule without COUNT has reached the cap of 100 occurrences
\* with its cursor still before the horizon.
C6_Witness ==
  /\ LoopDone
  /\ gen.rruleParams.count.nan
  /\ Len(occ) = 100
  /\ NotLater(currentDate, TwoYearsOn)

\* main has returned the selection of the list in events.
Selected == pc = "done" /\ ret.kind = "list"

\* The instant a date text of a record names (the Invalid Date for none).
InstantOf(text) == NewDate(text)

\* The effective end of a record that has a start: its end if present,
\* else its start.
EffectiveEnd(record) ==
  InstantOf(IF Has(record, "end") THEN record["end"] ELSE record["start"])

\* Strictly after yesterday 23:59:59.999: at or after the first millisecond
\* of today.
AfterCutoff(instant) == instant.ok /\ instant.s >= DayOf(now) * SecPerDay

\* The positions of events that qualify.
Qualifying ==
  {i \in 1..Len(events) : Has(events[i], "start") /\ AfterCutoff(EffectiveEnd(events[i]))}

\* The place of a qualifying position in the stable ascending order by
\* start: one more than the number of qualifying positions that start
\* earlier, or start at the same instant and come earlier in the list.
PlaceOf(i) ==
  1 + Cardinality({j \in Qualifying :
                     \/ InstantOf(events[j]["start"]).s < InstantOf(events[i]["start"]).s
                     \/ /\ InstantOf(events[j]["start"]).s = InstantOf(events[i]["start"]).s
                        /\ j < i})

\* C1: the selection is the first 25 (or fewer, if fewer qualify) of the
\* stable ascending-by-start order of the occurrences that have a start and
\* whose effective end is strictly after the end of the previous calendar
\* day (the order being that of the start instants, for occurrences whose
\* start names an instant); nothing that ended at or before the cutoff is
\* returned, and never more than 25.
C1_FirstOfStableOrder ==
  Selected =>
    /\ Len(ret.list) = IF Cardinality(Qualifying) < 25 THEN Cardinality(Qualifying) ELSE 25
    /\ \A p \in 1..Len(ret.list) :
         Has(ret.list[p], "start") /\ AfterCutoff(EffectiveEnd(ret.list[p]))
    /\ (\A i \in Qualifying : InstantOf(events[i]["start"]).ok) =>
         \A i \in Qualifying : PlaceOf(i) <= 25 => ret.list[PlaceOf(i)] = events[i]

\* C1's case: more than 25 occurrences qualify and some do not, the list is
\* not in the order of the starts, two qualifying occurrences start at the
\* same instant, and an occurrence that started before the cutoff and ends
\* after it is returned first.
C1_Witness ==
  /\ Selected
  /\ Cardinality(Qualifying) > 25
  /\ Cardinality(Qualifying) < Len(events)
  /\ \A i \in Qualifying : InstantOf(events[i]["start"]).ok
  /\ \E i, j \in Qualifying : i < j /\ PlaceOf(j) < PlaceOf(i)
  /\ \E i, j \in Qualifying :
       /\ i < j /\ PlaceOf(j) <= 25 /\ events[i] # events[j]
       /\ InstantOf(events[i]["start"]) = InstantOf(events[j]["start"])
  /\ ~AfterCutoff(InstantOf(ret.list[1]["start"]))

\* STATUS equals CANCELLED in some letter case.
IsCancelled(event) ==
  Has(event, "STATUS") /\ event["STATUS"] \in {"CANCELLED", "cancelled", "Cancelled"}

\* The exception instances of the feed that carry the UID of base event b.
InstancesOf(b) ==
  {i \in 1..Len(recurrenceExceptions) :
     /\ Has(mainEvents[b].event, "UID")
     /\ recurrenceExceptions[i].uid = mainEvents[b].event["UID"]}

\* No other base event of the feed has the UID of base event b.
OwnUid(b) ==
  \A c \in 1..Len(mainEvents) :
    c # b /\ Has(mainEvents[c].event, "UID") /\ Has(mainEvents[b].event, "UID")
      => mainEvents[c].event["UID"] # mainEvents[b].event["UID"]

\* C2: a base event whose STATUS is CANCELLED in any letter case
\* contributes nothing to the list parseICS builds, nor to what main
\* returns: no occurrence was pushed for it, its rule is never expanded, and
\* no exception instance of its UID is in the list.
C2_CancelledContributesNothing ==
  /\ \A i \in 1..Len(origin) : ~IsCancelled(mainEvents[origin[i]].event)
  /\ pc = "expand" => ~IsCancelled(mainEvents[idx].event)
  /\ \A b \in 1..Len(mainEvents) :
       IsCancelled(mainEvents[b].event) /\ OwnUid(b) =>
         \A x \in InstancesOf(b) :
           /\ \A i \in 1..Len(events) : events[i] # OwnFields(recurrenceExceptions[x].data)
           /\ \A i \in 1..Len(occ) : occ[i] # OwnFields(recurrenceExceptions[x].data)
  /\ Selected =>
       /\ Len(origin) = Len(events)
       /\ \A p \in 1..Len(ret.list) : \E i \in 1..Len(events) : ret.list[p] = events[i]

\* C2's case: the feed has been processed to its end, its first base event
\* has STATUS in another letter case than CANCELLED, a rule, a start and an
\* exception instance, and the base event after it has been returned.
C2_Witness ==
  /\ Selected
  /\ Len(mainEvents) = 2
  /\ IsCancelled(mainEvents[1].event) /\ mainEvents[1].event["STATUS"] # "CANCELLED"
  /\ HasRRule(mainEvents[1].event)
  /\ NewDate(formatDateToISO(mainEvents[1].event["DTSTART"], NoZone).v).ok
  /\ InstancesOf(1) # {}
  /\ Len(ret.list) = 1 /\ origin = <<2>>

\* C7: every record main returns has a start that is not empty, and each of
\* its fields is one of start, end, title, description, address and is not
\* empty.
C7_NoEmptyField ==
  Selected =>
    \A p \in 1..Len(ret.list) :
      /\ Has(ret.list[p], "start")
      /\ DOMAIN ret.list[p] \subseteq {"start", "end", "title", "description", "address"}
      /\ \A k \in DOMAIN ret.list[p] :
           IF k \in {"start", "end"} THEN ret.list[p][k].fmt # "empty"
           ELSE ret.list[p][k] # <<>>

\* C7's case: a single event whose SUMMARY and LOCATION are not empty in the
\* feed and are empty once cleaned has been returned without title and
\* address.
C7_Witness ==
  /\ Selected
  /\ Len(mainEvents) = 1 /\ Len(ret.list) = 1
  /\ TruthyText(mainEvents[1].event, "SUMMARY")
  /\ TruthyText(mainEvents[1].event, "LOCATION")
  /\ DOMAIN ret.list[1] = {"start", "end"}

\* C8 as claimed: every invocation of main ends by returning a body, a
\* string or the selected list, never by a thrown failure; without url it
\* returns a string and the engine has not run.
C8_AlwaysReturnsBody ==
  pc = "done" =>
    /\ ret.kind \in {"string", "list"}
    /\ ~args.url => ret.kind = "string" /\ mainEvents = <<>> /\ events = <<>>

\* C9 as claimed: no exception escapes the engine, whatever the feed.
C9_NoExceptionEscapes ==
  ~(pc = "done" /\ ret = Thrown("RangeError: Invalid time value"))

\* The running expansion is of a WEEKLY rule with two or more BYDAY codes,
\* INTERVAL=k (k >= 1) and COUNT=n, of a timed base event, without UNTIL,
\* exclusions and exception instances; and its loop has ended.
WeeklyByDayCase ==
  /\ LoopDone
  /\ gen.rruleParams.freq = "WEEKLY"
  /\ Len(gen.rruleParams.byday) >= 2
  /\ ~gen.rruleParams.interval.nan /\ gen.rruleParams.interval.v >= 1
  /\ ~gen.rruleParams.count.nan /\ gen.rruleParams.count.v > 0
  /\ gen.rruleParams.until = EmptyStr
  /\ gen.exdates = <<>> /\ DOMAIN gen.exceptionMap = {}
  /\ BaseStart.ok /\ gen.eventData.start.fmt = "dtz"

\* The Monday of the week of the base start.
BaseMonday == DayOf(BaseStart) - ((WeekDayOfDay(DayOf(BaseStart)) + 6) % 7)

\* The days on or after the base start whose weekday is in the BYDAY set
\* and whose week is a multiple of k weeks after the week of the base start.
RuleDays ==
  {d \in DayOf(BaseStart)..(DayOf(BaseStart)
                             + 7 * gen.rruleParams.interval.v * gen.rruleParams.count.v) :
     /\ \E i \in 1..Len(gen.rruleParams.byday) :
          DayIs(gen.rruleParams.byday[i], WeekDayOfDay(d))
     /\ ((d - BaseMonday) \div 7) % gen.rruleParams.interval.v = 0}

\* The base start's time of day on day d.
OnDay(d) == [BaseStart EXCEPT !.s = d * SecPerDay + SecOfDay(BaseStart)]

\* C10 as claimed: a WEEKLY rule with two or more BYDAY codes, INTERVAL=k
\* and COUNT=n emits, in ascending order and at the base event's time of
\* day, the first n days on or after the base start whose weekday is in the
\* BYDAY set and whose week block is a multiple of k blocks after that of
\* the base start.
C10_WeekBlocksHonoured ==
  WeeklyByDayCase =>
    /\ Len(occ) = gen.rruleParams.count.v
    /\ \A d \in RuleDays :
         LET place == 1 + Cardinality({e \in RuleDays : e < d})
         IN place <= Len(occ) => StartsAt(occ[place], OnDay(d))

\* A date-only DTEND that names a date.
DateOnlyEnd(event) ==
  Has(event, "DTEND") /\ event["DTEND"].fmt = "cdate" /\ FieldsValid(event["DTEND"])

\* The calendar day a date-only value names, and the text of a day.
DayNamed(text) == MakeDay(text.y, text.mo - 1, text.d)

DayText(day) == IsoStr("date", YearOfDay(day), MonthOfDay(day), DateOfDay(day), 0, 0, 0)

\* A record that carries the start and the title of an exception instance
\* is the one emitted for it.
EmittedFor(exception, record) ==
  /\ Has(record, "start") /\ Has(record, "title")
  /\ Has(OwnFields(exception), "start") /\ Has(OwnFields(exception), "title")
  /\ record["start"] = OwnFields(exception)["start"]
  /\ record["title"] = OwnFields(exception)["title"]
  /\ record["title"] # <<"a">>

\* The records of single events end on the day before their date-only DTEND.
SingleEndsInclusive ==
  \A i \in 1..Len(events) :
    LET base == mainEvents[origin[i]].event
    IN ~HasRRule(base) /\ DateOnlyEnd(base) =>
         Has(events[i], "end") /\ events[i]["end"] = DayText(DayNamed(base["DTEND"]) - 1)

\* The generated occurrences of an all-day base event with DTSTART S and a
\* later date-only DTEND E end (E - 1 day) - S after their start.
GeneratedEndsInclusive ==
  pc = "expand" /\ DateOnlyEnd(BaseEvent.event) /\ BaseStart.ok
    /\ BaseEvent.event["DTSTART"].fmt = "cdate"
    /\ DayNamed(BaseEvent.event["DTEND"]) > DayNamed(BaseEvent.event["DTSTART"]) =>
      \A i \in 1..Len(occ) :
        (\A x \in 1..Len(BaseExceptions) : ~EmittedFor(BaseExceptions[x], occ[i])) =>
          /\ Has(occ[i], "end")
          /\ occ[i]["end"] =
               DayText(DayNamed(occ[i]["start"]) + DayNamed(BaseEvent.event["DTEND"]) - 1
                       - DayNamed(BaseEvent.event["DTSTART"]))

\* The records emitted for exception instances end on the day before their
\* date-only DTEND.
ExceptionEndsInclusive ==
  pc = "expand" =>
    \A i \in 1..Len(occ) : \A x \in 1..Len(BaseExceptions) :
      EmittedFor(BaseExceptions[x], occ[i]) /\ DateOnlyEnd(BaseExceptions[x].event) =>
        /\ Has(occ[i], "end")
        /\ occ[i]["end"] = DayText(DayNamed(BaseExceptions[x].event["DTEND"]) - 1)

\* C11 as claimed: wherever a date-only DTEND E is the end of an emitted
\* occurrence the emitted end is inclusive: E minus one day for a single
\* event and for an exception instance, and the start plus (E minus one
\* day) - S for the occurrences generated from an all-day base event.
C11_EndIsInclusive ==
  SingleEndsInclusive /\ GeneratedEndsInclusive /\ ExceptionEndsInclusive

\* C12 as claimed: unescapeICS applied to its own result changes nothing.
C12_UnescapeIdempotent ==
  Len(output) = 2 => output[2] = output[1]

\* The result of formatDateToISO has the shape YYYY-MM-DD or
\* YYYY-MM-DDTHH:MM:SSZ.
IsCanonical(result) == ~result.thrown /\ result.v.fmt \in {"date", "dtz"}

\* C13 as claimed: for a value in one of the three encodings and any zone
\* context, formatDateToISO returns a date-only text or a UTC instant that
\* ends in Z, never a date and time without the Z.
C13_AlwaysCanonical ==
  output # <<>> => IsCanonical(output[1])

\* C14 as claimed: the loop of generateOccurrences terminates, whatever the
\* rule and the exclusions, because each iteration either counts an
\* occurrence toward the cap or moves the cursor to a strictly later
\* instant (or to no instant at all, which ends the loop at its next test).
\* An iteration that does neither leaves the loop where it was, for ever.
C14_EveryIterationProgresses ==
  pc = "expand" /\ LoopCond /\ ~UntilBreak =>
    LET r == gen.rruleParams
        occurrence == createOccurrence(currentDate, gen.eventData, gen.durationMs,
                                       gen.exdates, gen.exceptionMap)
        next == advanceToNextDate(currentDate, r.freq, r.interval, r.byday)
    IN \/ shouldIncludeDate(currentDate, r.freq, r.byday) /\ ~occurrence.null
       \/ ~next.ok
       \/ DateGT(next, currentDate)

\* The running expansion is of a rule whose FREQ is none of the four the
\* expander knows, and its loop has ended.
UnsupportedFreqCase ==
  /\ LoopDone
  /\ gen.rruleParams.freq \notin {"DAILY", "WEEKLY", "MONTHLY", "YEARLY"}
  /\ BaseStart.ok

\* C15 as claimed: for a rule of an unsupported FREQ the expansion holds no
\* occurrence but the one at the base start, however far in the past that
\* is: the first advance of the cursor ends the generation.
C15_SingleSafetyStep ==
  UnsupportedFreqCase =>
    /\ Len(occ) <= 1
    /\ \A i \in 1..Len(occ) : StartsAt(occ[i], BaseStart)

====
